---- MODULE Spec2Model ----
(***************************************************************************)
(* The shared, versioned slab of lib/vfs/src/mem_fs/shared_slab:           *)
(*   Chunked    - fixed-size chunks over one shared byte buffer            *)
(*   Ropes      - chained records keyed by head chunk, with a version word *)
(*   SharedSlab - a per-context cache key -> (ver, val) over a Ropes       *)
(* Two specifications:                                                     *)
(*   SpecRope - contexts drive their Ropes directly (insert_at, get, ...)  *)
(*   Spec     - contexts drive their SharedSlab (insert, get, flush, ...)  *)
(* Every operation runs to completion (one action per call).               *)
(***************************************************************************)
EXTENDS Integers, Sequences, FiniteSets, TLC

(***************************************************************************)
(* Bounds of the model.                                                    *)
(***************************************************************************)
\* words per chunk; the chunk size is 4 * ChunkWords bytes (the source
\* attaches with 1024-byte chunks, i.e. 256 words)
ChunkWords == 4
\* chunks in the shared buffer
NChunks == 5
\* calls the contexts make in a run of SpecRope, of Spec and of SpecShare
MaxRopeCalls == 4
MaxCalls == 5
MaxShareCalls == 8
\* inserts the contexts make in a run of SpecShare
MaxShareInserts == 3
\* calls and inserts the contexts make in a run of SpecPull
MaxPullCalls == 6
MaxPullInserts == 2
\* steps the contexts make in a run of SpecRace
MaxRaceSteps == 7
\* steps the contexts make in a run of SpecTear
MaxTearSteps == 11
\* steps the contexts make in a run of SpecAlloc
MaxAllocSteps == 16
\* steps the contexts make in a run of SpecGet
MaxGetSteps == 10
\* inserts a slab may do before it is attached
MaxDetached == 2

\* the execution contexts (workers), one Ropes / SharedSlab each
Ctx == {"A", "B"}

chunk_size == 4 * ChunkWords
BufBytes == NChunks * chunk_size
Chunks == 0 .. (NChunks - 1)
\* payload bytes a head chunk holds (after words 0..2) and a continuation
\* chunk holds (after word 0)
HeadCap == chunk_size - 12
ContCap == chunk_size - 4

Min(a, b) == IF a < b THEN a ELSE b

\* Option<T>: None is <<>>, Some(x) is <<x>>
None == <<>>
Some(x) == <<x>>
IsSome(o) == o # <<>>
Unwrap(o) == o[1]

(***************************************************************************)
(* Chunked: the byte buffer as an array of chunks.  A buffer is the        *)
(* sequence of its BufBytes bytes: the byte at address a is b[a + 1].  The *)
(* callers check that the chunk lies in the buffer: DataView and           *)
(* Uint8Array throw a RangeError otherwise.                                *)
(***************************************************************************)
address(chunk, offset) == chunk * chunk_size + offset

InBuffer(chunk) == chunk >= 0 /\ chunk < NChunks

\* big-endian unsigned 32-bit word `index` of `chunk`
read_u32(b, chunk, index) ==
    LET a == address(chunk, 4 * index)
    IN  b[a + 1] * 16777216 + b[a + 2] * 65536 + b[a + 3] * 256 + b[a + 4]

write_u32(b, chunk, index, val) ==
    LET a == address(chunk, 4 * index)
    IN  [b EXCEPT ![a + 1] = (val \div 16777216) % 256,
                  ![a + 2] = (val \div 65536) % 256,
                  ![a + 3] = (val \div 256) % 256,
                  ![a + 4] = val % 256]

\* a transfer that stops half way to the chunk edge
byte_length_half(len, byte_offset) == Min(len, (chunk_size - byte_offset) \div 2)

\* the number of bytes write_bytes / read_bytes_into move: bounded by the
\* chunk edge
byte_length(len, byte_offset) == Min(len, chunk_size - byte_offset)

write_bytes(b, chunk, byte_offset, data) ==
    LET n == byte_length(Len(data), byte_offset)
        a == address(chunk, byte_offset)
    IN  SubSeq(b, 1, a) \o SubSeq(data, 1, n) \o SubSeq(b, a + n + 1, Len(b))

\* the bytes read_bytes_into copies into an output slice of `len` bytes
read_bytes_into(b, chunk, byte_offset, len) ==
    LET n == byte_length(len, byte_offset)
        a == address(chunk, byte_offset)
    IN  SubSeq(b, a + 1, a + n)

(***************************************************************************)
(* Ropes: storage (the buffer b, shared) and next_free (per context).      *)
(* An operation that reads or writes outside the buffer ends in a          *)
(* RangeError: fault is then "RangeError" and the operation stops where it *)
(* was, its earlier writes kept.                                           *)
(***************************************************************************)
\* a contains_key that takes a version word of 1 for an unwritten chunk
contains_key_above_one(b, key) == read_u32(b, key, 0) > 1

contains_key(b, key) == read_u32(b, key, 0) # 0

ver_peek(b, key) == read_u32(b, key, 0)

\* alloc_peek: move next_free over written chunks.  The result is the new
\* next_free; NChunks means the scan left the buffer (contains_key threw).
RECURSIVE ropes_alloc_peek(_, _)
ropes_alloc_peek(b, next_free) ==
    IF ~InBuffer(next_free) THEN NChunks
    ELSE IF contains_key(b, next_free) THEN ropes_alloc_peek(b, next_free + 1)
    ELSE next_free

\* an alloc that hands out whatever index the scan stopped at
alloc_result_unchecked(key) == [key |-> key, next_free |-> key + 1, fault |-> "none"]

\* an alloc that leaves next_free at the index it hands out
alloc_result_stay(key) ==
    IF key = NChunks
    THEN [key |-> key, next_free |-> NChunks, fault |-> "RangeError"]
    ELSE [key |-> key, next_free |-> key, fault |-> "none"]

\* alloc: [key, next_free, fault], from the key alloc_peek found
alloc_result(key) ==
    IF key = NChunks
    THEN [key |-> key, next_free |-> NChunks, fault |-> "RangeError"]
    ELSE [key |-> key, next_free |-> key + 1, fault |-> "none"]

\* an alloc that hands out next_free without looking at the chunk
ropes_alloc_noscan(b, next_free) == alloc_result(IF InBuffer(next_free) THEN next_free ELSE NChunks)

ropes_alloc(b, next_free) == alloc_result(ropes_alloc_peek(b, next_free))

Rope(b, next_free, fault) == [buf |-> b, next_free |-> next_free, fault |-> fault]

\* The while loop of insert_cont, from chunk cur with `data` left to write:
\* [buf, next_free, fault].  One iteration is insert_cont_loop (read nxt_,
\* write the payload), cont_next (choose nxt: the old pointer, a fresh chunk
\* or the end mark 1) and cont_link (write nxt if it changed, go on).
RECURSIVE insert_cont_loop(_, _, _, _)
RECURSIVE cont_next(_, _, _, _, _)
RECURSIVE cont_alloc(_, _, _, _, _)
RECURSIVE cont_link(_, _, _, _, _, _)

cont_link(b1, next_free, cur, nxt_, nxt, rest) ==
    insert_cont_loop(IF nxt # nxt_ THEN write_u32(b1, cur, 0, nxt) ELSE b1,
                     next_free, nxt, rest)

cont_alloc(b1, cur, nxt_, rest, a) ==
    IF a.fault # "none"
    THEN Rope(b1, a.next_free, a.fault)
    ELSE cont_link(b1, a.next_free, cur, nxt_, a.key, rest)

\* an insert_cont that ends the chain with 0 instead of 1
cont_next_zero_end(b1, next_free, cur, nxt_, rest) ==
    IF Len(rest) > 0
    THEN IF nxt_ > 1
         THEN cont_link(b1, next_free, cur, nxt_, nxt_, rest)
         ELSE cont_alloc(b1, cur, nxt_, rest, ropes_alloc(b1, next_free))
    ELSE cont_link(b1, next_free, cur, nxt_, 0, rest)

\* an insert_cont that links a next chunk after the last one it fills too
cont_next_eager(b1, next_free, cur, nxt_, rest) ==
    IF nxt_ > 1
    THEN cont_link(b1, next_free, cur, nxt_, nxt_, rest)
    ELSE cont_alloc(b1, cur, nxt_, rest, ropes_alloc(b1, next_free))

cont_next(b1, next_free, cur, nxt_, rest) ==
    IF Len(rest) > 0
    THEN IF nxt_ > 1
         THEN cont_link(b1, next_free, cur, nxt_, nxt_, rest)
         ELSE cont_alloc(b1, cur, nxt_, rest, ropes_alloc(b1, next_free))
    ELSE cont_link(b1, next_free, cur, nxt_, 1, rest)

insert_cont_loop(b, next_free, cur, data) ==
    IF Len(data) = 0 THEN Rope(b, next_free, "none")
    ELSE IF ~InBuffer(cur) THEN Rope(b, next_free, "RangeError")
    ELSE cont_next(write_bytes(b, cur, 4, data), next_free, cur, read_u32(b, cur, 0),
                   SubSeq(data, byte_length(Len(data), 4) + 1, Len(data)))

\* insert_cont: [buf, next_free, fault, head]; a is the head chunk: maybe_at,
\* or a fresh chunk
cont_from(b, a, data) ==
    IF a.fault # "none"
    THEN [buf |-> b, next_free |-> a.next_free, fault |-> a.fault, head |-> a.key]
    ELSE [head |-> a.key] @@ insert_cont_loop(b, a.next_free, a.key, data)

insert_cont(b, next_free, maybe_at, data) ==
    cont_from(b,
              IF maybe_at > 1
              THEN [key |-> maybe_at, next_free |-> next_free, fault |-> "none"]
              ELSE ropes_alloc(b, next_free),
              data)

\* an insert_at that never stores the head of the continuation chain
insert_at_link_never(key, ver, nxt_, c) ==
    [buf |-> c.buf, next_free |-> c.next_free, fault |-> c.fault, ver |-> ver]

\* insert_at, key in the buffer: [buf, next_free, fault, ver].
\* insert_at_link: the last step, word 2 is written if nxt differs from nxt_
insert_at_link(key, ver, nxt_, c) ==
    IF c.fault # "none"
    THEN [buf |-> c.buf, next_free |-> c.next_free, fault |-> c.fault, ver |-> ver]
    ELSE [buf |-> IF c.head # nxt_ THEN write_u32(c.buf, key, 2, c.head) ELSE c.buf,
          next_free |-> c.next_free, fault |-> "none", ver |-> ver]

\* b2: the buffer with the version and length words written
insert_at_data(b2, next_free, key, data, ver, nxt_, wr_len) ==
    insert_at_link(key, ver, nxt_,
        IF wr_len < Len(data)
        THEN insert_cont(write_bytes(b2, key, 12, data), next_free, nxt_,
                         SubSeq(data, wr_len + 1, Len(data)))
        ELSE [buf |-> write_bytes(b2, key, 12, data), next_free |-> next_free,
              fault |-> "none", head |-> 0])

insert_at_ver(b, next_free, key, data, ver) ==
    insert_at_data(write_u32(write_u32(b, key, 0, ver), key, 1, Len(data)),
                   next_free, key, data, ver, read_u32(b, key, 2),
                   byte_length(Len(data), 12))

insert_at(b, next_free, key, data) ==
    insert_at_ver(b, next_free, key, data, read_u32(b, key, 0) + 1)

\* the while loop of get: [vec, fault]; get_more prepends the bytes read
\* from chunk cur and follows its next-pointer while bytes are missing
RECURSIVE get_loop(_, _, _, _, _)
RECURSIVE get_more(_, _, _, _, _)

get_join(got, r) == [vec |-> got \o r.vec, fault |-> r.fault]

get_more(b, cur, index_nxt, got, left) ==
    IF left > 0
    THEN get_join(got, get_loop(b, read_u32(b, cur, index_nxt), 4, 0, left))
    ELSE [vec |-> got, fault |-> "none"]

get_loop(b, cur, offset_data, index_nxt, len) ==
    IF len = 0 THEN [vec |-> <<>>, fault |-> "none"]
    ELSE IF ~InBuffer(cur) THEN [vec |-> <<>>, fault |-> "RangeError"]
    ELSE get_more(b, cur, index_nxt, read_bytes_into(b, cur, offset_data, len),
                  len - byte_length(len, offset_data))

\* get, key in the buffer: [vec, fault].  A length word above BufBytes is
\* never one insert_at wrote (payloads are shorter than the buffer): the
\* traversal then leaves the buffer or runs round a cycle of chunks; the
\* model reports it as fault "junk" without building the bytes.
ropes_get(b, key) ==
    IF read_u32(b, key, 1) > BufBytes THEN [vec |-> <<>>, fault |-> "junk"]
    ELSE get_loop(b, key, 12, 2, read_u32(b, key, 1))

\* Ropes::remove is called by SharedSlab::remove: it clears the version word
ropes_remove(b, key) == write_u32(b, key, 0, 0)

(***************************************************************************)
(* The value codec.  T is Vec<u8>; serde_cbor writes it as a CBOR array of *)
(* unsigned integers: the header 0x80 + n (n < 24) or 0x98 n (n < 256),    *)
(* then each element as one byte (x < 24) or as 0x18 x.  from_slice reads  *)
(* the same forms and fails on an empty slice, on another first byte, on a *)
(* missing element and on trailing bytes.  A Result is an Option: Err is   *)
(* None.                                                                   *)
(***************************************************************************)
RECURSIVE cbor_write_items(_)
cbor_write_items(val) ==
    IF Len(val) = 0 THEN <<>>
    ELSE (IF val[1] < 24 THEN <<val[1]>> ELSE <<24, val[1]>>) \o cbor_write_items(Tail(val))

to_vec(val) ==
    (IF Len(val) < 24 THEN <<128 + Len(val)>> ELSE <<152, Len(val)>>) \o cbor_write_items(val)

cbor_cons(x, r) == IF IsSome(r) THEN Some(<<x>> \o Unwrap(r)) ELSE None

RECURSIVE cbor_read_items(_, _)
cbor_read_items(bytes, n) ==
    IF n = 0 THEN (IF Len(bytes) = 0 THEN Some(<<>>) ELSE None)
    ELSE IF Len(bytes) = 0 THEN None
    ELSE IF bytes[1] < 24 THEN cbor_cons(bytes[1], cbor_read_items(Tail(bytes), n - 1))
    ELSE IF bytes[1] = 24 /\ Len(bytes) >= 2
         THEN cbor_cons(bytes[2], cbor_read_items(SubSeq(bytes, 3, Len(bytes)), n - 1))
    ELSE None

from_slice(bytes) ==
    IF Len(bytes) = 0 THEN None
    ELSE IF bytes[1] >= 128 /\ bytes[1] < 152 THEN cbor_read_items(Tail(bytes), bytes[1] - 128)
    ELSE IF bytes[1] = 152 /\ Len(bytes) >= 2
         THEN cbor_read_items(SubSeq(bytes, 3, Len(bytes)), bytes[2])
    ELSE None

(***************************************************************************)
(* SharedSlab: cache (ch: key -> Option<VEntry>), ropes (rp: Option<Ropes>)*)
(* and next_key (nk), over the shared buffer b.  A call that panics (an    *)
(* unwrap of None or of an Err, a RangeError) has fault # "none" and       *)
(* keeps what it wrote before.                                             *)
(***************************************************************************)
VEntry(ver, val) == [ver |-> ver, val |-> val]

\* a same_ver that accepts any cached entry, whatever its version
same_ver_any(e, ver) == IsSome(e)

\* a same_ver that never accepts the cached entry
same_ver_never(e, ver) == FALSE

same_ver(e, ver) == IF IsSome(e) THEN Unwrap(e).ver = ver ELSE FALSE

\* the last line of pull: the cached value, if any
cached_val(ch, key) == IF IsSome(ch[key]) THEN Some(Unwrap(ch[key]).val) ELSE None

\* pull, after a cache miss: val is the decoded payload
\* a pull that answers a payload that does not decode with the cached entry
pull_decoded_masking(ch, key, ver, val) ==
    IF IsSome(val)
    THEN [cache |-> [ch EXCEPT ![key] = Some(VEntry(ver, Unwrap(val)))],
          res |-> val, fault |-> "none"]
    ELSE [cache |-> ch, res |-> cached_val(ch, key), fault |-> "none"]

pull_decoded(ch, key, ver, val) ==
    IF IsSome(val)
    THEN [cache |-> [ch EXCEPT ![key] = Some(VEntry(ver, Unwrap(val)))],
          res |-> val, fault |-> "none"]
    ELSE [cache |-> ch, res |-> None, fault |-> "InvalidData"]

pull_miss(ch, key, ver, data) ==
    IF data.fault # "none"
    THEN [cache |-> ch, res |-> None, fault |-> data.fault]
    ELSE pull_decoded(ch, key, ver, from_slice(data.vec))

\* pull: [cache, res, fault]; res is the Option<&mut T> it returns
pull(b, rp, ch, key) ==
    IF IsSome(rp)
    THEN IF ~InBuffer(key) THEN [cache |-> ch, res |-> None, fault |-> "RangeError"]
         ELSE IF ~same_ver(ch[key], ver_peek(b, key))
              THEN pull_miss(ch, key, ver_peek(b, key), ropes_get(b, key))
              ELSE [cache |-> ch, res |-> cached_val(ch, key), fault |-> "none"]
    ELSE [cache |-> ch, res |-> cached_val(ch, key), fault |-> "none"]

\* push: [buf, ropes, fault, ver]
push_result(r) ==
    [buf |-> r.buf, ropes |-> Some([next_free |-> r.next_free]), fault |-> r.fault, ver |-> r.ver]

\* a push that writes the rope of a fresh Ropes when the slab has none
push_detached_writes(b, rp, key, val) ==
    IF ~InBuffer(key) THEN [buf |-> b, ropes |-> rp, fault |-> "RangeError", ver |-> 0]
    ELSE [push_result(insert_at(b, IF IsSome(rp) THEN Unwrap(rp).next_free ELSE 1,
                                key, to_vec(val)))
          EXCEPT !.ropes = IF IsSome(rp) THEN @ ELSE rp]

push(b, rp, key, val) ==
    IF IsSome(rp)
    THEN IF ~InBuffer(key) THEN [buf |-> b, ropes |-> rp, fault |-> "RangeError", ver |-> 0]
         ELSE push_result(insert_at(b, Unwrap(rp).next_free, key, to_vec(val)))
    ELSE [buf |-> b, ropes |-> rp, fault |-> "none", ver |-> 0]

\* a flush_mut that leaves the cached version as it was
flush_mut_ver_stale(ch, key, p) ==
    [buf |-> p.buf, ropes |-> p.ropes, fault |-> p.fault, cache |-> ch]

\* flush_mut: [buf, ropes, cache, fault]
flush_mut_ver(ch, key, p) ==
    [buf |-> p.buf, ropes |-> p.ropes, fault |-> p.fault,
     cache |-> IF p.fault = "none"
               THEN [ch EXCEPT ![key] = Some(VEntry(p.ver, Unwrap(ch[key]).val))]
               ELSE ch]

flush_mut(b, rp, ch, key) ==
    IF IsSome(ch[key])
    THEN flush_mut_ver(ch, key, push(b, rp, key, Unwrap(ch[key]).val))
    ELSE [buf |-> b, ropes |-> rp, cache |-> ch, fault |-> "unwrap"]

\* alloc: [key, ropes, next_key, fault]
alloc_result_slab(a, nk) ==
    [key |-> a.key, ropes |-> Some([next_free |-> a.next_free]),
     next_key |-> IF a.fault = "none" THEN a.key + 1 ELSE nk, fault |-> a.fault]

\* an alloc whose detached branch increments next_key before it reads it
alloc_preincrement(b, rp, nk) ==
    IF IsSome(rp)
    THEN alloc_result_slab(ropes_alloc(b, Unwrap(rp).next_free), nk)
    ELSE [key |-> nk + 1, ropes |-> rp, next_key |-> nk + 1, fault |-> "none"]

alloc(b, rp, nk) ==
    IF IsSome(rp)
    THEN alloc_result_slab(ropes_alloc(b, Unwrap(rp).next_free), nk)
    ELSE [key |-> nk, ropes |-> rp, next_key |-> nk + 1, fault |-> "none"]

\* alloc_peek (vacant_entry_key): [key, ropes, fault]
alloc_peek_result(n) ==
    [key |-> n, ropes |-> Some([next_free |-> n]),
     fault |-> IF n = NChunks THEN "RangeError" ELSE "none"]

alloc_peek(b, rp, nk) ==
    IF IsSome(rp)
    THEN alloc_peek_result(ropes_alloc_peek(b, Unwrap(rp).next_free))
    ELSE [key |-> nk, ropes |-> rp, fault |-> "none"]

\* insert: [buf, ropes, cache, next_key, key, fault]
insert_flush(a, f) ==
    [buf |-> f.buf, ropes |-> f.ropes, cache |-> f.cache, next_key |-> a.next_key,
     key |-> a.key, fault |-> f.fault]

insert_at_key(b, ch, val, a) ==
    IF a.fault # "none"
    THEN [buf |-> b, ropes |-> a.ropes, cache |-> ch, next_key |-> a.next_key,
          key |-> a.key, fault |-> a.fault]
    ELSE insert_flush(a, flush_mut(b, a.ropes, [ch EXCEPT ![a.key] = Some(VEntry(0, val))], a.key))

insert(b, rp, ch, nk, val) == insert_at_key(b, ch, val, alloc(b, rp, nk))

\* remove: [buf, cache, res, fault]
remove(b, rp, ch, key) ==
    IF ~IsSome(rp) THEN [buf |-> b, cache |-> ch, res |-> None, fault |-> "unwrap"]
    ELSE IF ~InBuffer(key) THEN [buf |-> b, cache |-> ch, res |-> None, fault |-> "RangeError"]
    ELSE IF ~IsSome(ch[key])
         THEN [buf |-> ropes_remove(b, key), cache |-> ch, res |-> None, fault |-> "unwrap"]
    ELSE [buf |-> ropes_remove(b, key), cache |-> [ch EXCEPT ![key] = None],
          res |-> Some(Unwrap(ch[key]).val), fault |-> "none"]

\* an attach that never writes the root
attach_nopush(b, ch) ==
    [buf |-> b, ropes |-> Some([next_free |-> 1]), ver |-> 0,
     fault |-> IF ver_peek(b, 0) = 0 /\ ~IsSome(ch[0]) THEN "unwrap" ELSE "none"]

\* attach: [buf, ropes, fault]; the new Ropes starts with next_free = 1
attach(b, ch) ==
    IF ver_peek(b, 0) = 0
    THEN IF IsSome(ch[0])
         THEN push(b, Some([next_free |-> 1]), 0, Unwrap(ch[0]).val)
         ELSE [buf |-> b, ropes |-> Some([next_free |-> 1]), fault |-> "unwrap", ver |-> 0]
    ELSE [buf |-> b, ropes |-> Some([next_free |-> 1]), fault |-> "none", ver |-> 0]

(***************************************************************************)
(* State.                                                                  *)
(***************************************************************************)
VARIABLES
    buf,        \* the shared byte buffer (ArrayBuffer), zero-initialized
    ropes,      \* ropes[c]: Option<Ropes>, Some([next_free |-> n]) once attached
    cache,      \* cache[c][key]: Option<VEntry>, Some([ver |-> v, val |-> t])
    next_key,   \* next_key[c]: the detached slab's key counter
    dead,       \* dead[c]: the context panicked (an unwrap, assert or RangeError)
    last,       \* the last completed call: what was called and what it returned
    written,    \* written[k]: the version the last successful insert_at(k, .) left (0: none)
    heads,      \* SpecRope: the keys given to insert_at and not removed since
    known,      \* the keys the callers hold: the root key 0 and the keys alloc returned
    dirty,      \* dirty[c]: keys whose cached value was changed through get_mut and not flushed
    ninserts,   \* ninserts[c]: insert calls the slab of c completed
    committed,  \* committed[k]: Some(val) when the last write to k was a completed flush of val
    calls_left, \* calls (in SpecRace: steps) the run may still make
    pc,         \* SpecRace: pc[c] is where context c stands in insert_at ("idle": not in it)
    frame,      \* SpecRace: frame[c] holds key, data and ver of the insert_at of context c
    seen        \* SpecRace: seen[k] is the highest version of k a ver_peek returned

vars == <<buf, ropes, cache, next_key, dead, last, written, heads, known, dirty, ninserts,
          committed, calls_left, pc, frame, seen>>

\* cache keys: chunk indices, and the keys a detached slab hands out
NKeys == IF NChunks > MaxDetached THEN NChunks ELSE MaxDetached
Keys == 0 .. (NKeys - 1)

\* the record of a completed call; key is -1 when the call takes none, arg
\* and res are Options, fault is "none" or the panic that ended the call, pre is the version word of key (for alloc: next_free)
\* before the call, had is the cache entry of key before the call
Call(op, c, key, arg, res, fault, pre, had) ==
    [op |-> op, ctx |-> c, key |-> key, arg |-> arg, res |-> res, ok |-> fault = "none",
     fault |-> fault, pre |-> pre, had |-> had]

NoCall == Call("none", "A", -1, None, None, "none", 0, None)

\* no context is inside an insert_at, no version was observed
NoFrame == [key |-> 0, data |-> <<>>, ver |-> 0]

AllIdle ==
    /\ pc = [c \in Ctx |-> "idle"]
    /\ frame = [c \in Ctx |-> NoFrame]
    /\ seen = [k \in Chunks |-> 0]

\* the calls of SpecRope, Spec, SpecShare and SpecPull run to completion
RaceUnchanged == UNCHANGED <<pc, frame, seen>>

ZeroBuffer == [i \in 1 .. BufBytes |-> 0]

next_free(c) == Unwrap(ropes[c]).next_free

(***************************************************************************)
(* SpecRope: each context holds a Ropes over the shared buffer and calls   *)
(* it directly.  The keys given to insert_at are the root key 0 and keys    *)
(* alloc returned, while they are unwritten chunks or heads.               *)
(***************************************************************************)
\* payload bytes: n bytes, varying with the position and with f
Pattern(n, f) == [i \in 1 .. n |-> 1 + ((i + f) % 3)]

\* payload lengths: empty, a full head chunk, one byte into a continuation
\* chunk, one byte into a second continuation chunk
RopeLens == {0, HeadCap, HeadCap + 1, HeadCap + ContCap + 1}

Payloads == {Pattern(n, f) : n \in RopeLens, f \in {0, 1}}

InitRope ==
    /\ buf = ZeroBuffer
    /\ ropes = [c \in Ctx |-> Some([next_free |-> 1])]
    /\ cache = [c \in Ctx |-> [k \in Keys |-> None]]
    /\ next_key = [c \in Ctx |-> 0]
    /\ dead = [c \in Ctx |-> FALSE]
    /\ last = NoCall
    /\ written = [k \in Chunks |-> 0]
    /\ heads = {}
    /\ known = {0}
    /\ dirty = [c \in Ctx |-> {}]
    /\ ninserts = [c \in Ctx |-> 0]
    /\ committed = [k \in Chunks |-> None]
    /\ calls_left = MaxRopeCalls
    /\ AllIdle

SlabUnchanged == UNCHANGED <<cache, next_key, dirty, ninserts, committed>>

\* one more call
RopeCall == calls_left > 0 /\ calls_left' = calls_left - 1 /\ RaceUnchanged

RopeInsertAt(c, key, data) ==
    /\ ~dead[c]
    /\ RopeCall
    /\ key \in known
    /\ ver_peek(buf, key) = 0 \/ key \in heads
    /\ LET r == insert_at(buf, next_free(c), key, data)
           ok == r.fault = "none"
       IN  /\ buf' = r.buf
           /\ ropes' = [ropes EXCEPT ![c] = Some([next_free |-> r.next_free])]
           /\ dead' = [dead EXCEPT ![c] = ~ok]
           /\ written' = IF ok THEN [written EXCEPT ![key] = r.ver] ELSE written
           /\ heads' = heads \cup {key}
           /\ last' = Call("insert_at", c, key, Some(data), Some(r.ver), r.fault, ver_peek(buf, key), None)
    /\ UNCHANGED known
    /\ SlabUnchanged

RopeGet(c, key) ==
    /\ ~dead[c]
    /\ RopeCall
    /\ key \in known
    /\ ver_peek(buf, key) = 0 \/ key \in heads
    /\ LET r == ropes_get(buf, key)
           ok == r.fault = "none"
       IN  /\ dead' = [dead EXCEPT ![c] = ~ok]
           /\ last' = Call("get", c, key, None, Some(r.vec), r.fault, ver_peek(buf, key), None)
    /\ UNCHANGED <<buf, ropes, written, heads, known>>
    /\ SlabUnchanged

RopeRemove(c, key) ==
    /\ ~dead[c]
    /\ RopeCall
    /\ key \in heads
    /\ buf' = ropes_remove(buf, key)
    /\ heads' = heads \ {key}
    /\ last' = Call("remove", c, key, None, None, "none", ver_peek(buf, key), None)
    /\ UNCHANGED <<ropes, dead, written, known>>
    /\ SlabUnchanged

RopeAlloc(c) ==
    /\ ~dead[c]
    /\ RopeCall
    /\ LET a == ropes_alloc(buf, next_free(c))
           ok == a.fault = "none"
       IN  /\ ropes' = [ropes EXCEPT ![c] = Some([next_free |-> a.next_free])]
           /\ dead' = [dead EXCEPT ![c] = ~ok]
           /\ known' = IF ok THEN known \cup {a.key} ELSE known
           /\ last' = Call("alloc", c, -1, None, Some(a.key), a.fault, next_free(c), None)
    /\ UNCHANGED <<buf, written, heads>>
    /\ SlabUnchanged

RopeAllocPeek(c) ==
    /\ ~dead[c]
    /\ RopeCall
    /\ LET n == ropes_alloc_peek(buf, next_free(c))
           ok == n # NChunks
       IN  /\ ropes' = [ropes EXCEPT ![c] = Some([next_free |-> n])]
           /\ dead' = [dead EXCEPT ![c] = ~ok]
           /\ last' = Call("alloc_peek", c, -1, None, Some(n), IF ok THEN "none" ELSE "RangeError", next_free(c), None)
    /\ UNCHANGED <<buf, written, heads, known>>
    /\ SlabUnchanged

NextRope ==
    \E c \in Ctx :
        \/ \E key \in Chunks, data \in Payloads : RopeInsertAt(c, key, data)
        \/ \E key \in Chunks : RopeGet(c, key)
        \/ \E key \in Chunks : RopeRemove(c, key)
        \/ RopeAlloc(c)
        \/ RopeAllocPeek(c)

SpecRope == InitRope /\ [][NextRope]_vars

(***************************************************************************)
(* Spec: each context holds a SharedSlab, created detached by new() and    *)
(* attached at most once to the shared buffer.  The callers use the root   *)
(* key 0 and the keys insert returned (to any context: keys travel in the  *)
(* stored values).                                                         *)
(***************************************************************************)
\* the values T of the model: two values with encodings of the same length
\* that fit the head chunk, and one whose encoding needs a continuation chunk
Vals == {Pattern(1, 0), Pattern(1, 1), Pattern(HeadCap, 0)}

\* the slabs as SharedSlab::new() makes them, over a zeroed buffer
InitSlabs ==
    /\ buf = ZeroBuffer
    /\ ropes = [c \in Ctx |-> None]
    /\ cache = [c \in Ctx |-> [k \in Keys |-> None]]
    /\ next_key = [c \in Ctx |-> 0]
    /\ dead = [c \in Ctx |-> FALSE]
    /\ last = NoCall
    /\ written = [k \in Chunks |-> 0]
    /\ heads = {}
    /\ known = {0}
    /\ dirty = [c \in Ctx |-> {}]
    /\ ninserts = [c \in Ctx |-> 0]
    /\ committed = [k \in Chunks |-> None]
    /\ AllIdle

Init == InitSlabs /\ calls_left = MaxCalls

\* one more call; a run is followed up to its first panic
SlabCall ==
    /\ \A c \in Ctx : ~dead[c]
    /\ calls_left > 0
    /\ calls_left' = calls_left - 1
    /\ RaceUnchanged

\* the version word of key before a call (0 for a key outside the buffer)
Pre(key) == IF InBuffer(key) THEN ver_peek(buf, key) ELSE 0

Attached(c) == IsSome(ropes[c])

\* written after a call of context c that ran insert_at(key, .) and returned ver
Wrote(c, key, ok, ver) ==
    IF ok /\ InBuffer(key) /\ ver > 0 THEN [written EXCEPT ![key] = ver] ELSE written

\* committed after a call that wrote to key (wrote): val is the value it
\* flushed, None when the write was no completed flush
Commit(key, wrote, val) ==
    IF wrote /\ InBuffer(key) THEN [committed EXCEPT ![key] = val] ELSE committed

Attach(c) ==
    /\ SlabCall
    /\ ~Attached(c)
    /\ LET r == attach(buf, cache[c])
           ok == r.fault = "none"
       IN  /\ buf' = r.buf
           /\ ropes' = [ropes EXCEPT ![c] = r.ropes]
           /\ dead' = [dead EXCEPT ![c] = ~ok]
           /\ written' = Wrote(c, 0, ok, r.ver)
           /\ committed' = Commit(0, r.buf # buf, IF ok THEN cached_val(cache[c], 0) ELSE None)
           /\ last' = Call("attach", c, 0, None, None, r.fault, Pre(0), cache[c][0])
    /\ UNCHANGED <<cache, next_key, heads, known, dirty, ninserts>>

\* a get that stamps the chunk it reloaded: it adds one to the version word
GetStamping(c, key) ==
    /\ SlabCall
    /\ key \in known
    /\ LET r == pull(buf, ropes[c], cache[c], key)
           ok == r.fault = "none"
       IN  /\ cache' = [cache EXCEPT ![c] = r.cache]
           /\ buf' = IF r.cache # cache[c] THEN write_u32(buf, key, 0, ver_peek(buf, key) + 1) ELSE buf
           /\ dirty' = [dirty EXCEPT ![c] = IF r.cache = cache[c] THEN @ ELSE @ \ {key}]
           /\ dead' = [dead EXCEPT ![c] = ~ok]
           /\ last' = Call("get", c, key, None, r.res, r.fault, Pre(key), cache[c][key])
    /\ UNCHANGED <<ropes, next_key, written, heads, known, ninserts, committed>>

Get(c, key) ==
    /\ SlabCall
    /\ key \in known
    /\ LET r == pull(buf, ropes[c], cache[c], key)
           ok == r.fault = "none"
       IN  /\ cache' = [cache EXCEPT ![c] = r.cache]
           /\ dirty' = [dirty EXCEPT ![c] = IF r.cache = cache[c] THEN @ ELSE @ \ {key}]
           /\ dead' = [dead EXCEPT ![c] = ~ok]
           /\ last' = Call("get", c, key, None, r.res, r.fault, Pre(key), cache[c][key])
    /\ UNCHANGED <<buf, ropes, next_key, written, heads, known, ninserts, committed>>

\* get_mut, and the caller storing val through the reference it returned
GetMut(c, key, val) ==
    /\ SlabCall
    /\ key \in known
    /\ LET r == pull(buf, ropes[c], cache[c], key)
       IN  /\ r.fault = "none"
           /\ IsSome(r.res)
           /\ Unwrap(r.res) # val
           /\ cache' = [cache EXCEPT ![c] =
                            [r.cache EXCEPT ![key] = Some(VEntry(Unwrap(r.cache[key]).ver, val))]]
           /\ dirty' = [dirty EXCEPT ![c] = @ \cup {key}]
           /\ last' = Call("get_mut", c, key, Some(val), r.res, "none", Pre(key), cache[c][key])
    /\ UNCHANGED <<buf, ropes, next_key, dead, written, heads, known, ninserts, committed>>

FlushMut(c, key) ==
    /\ SlabCall
    /\ key \in known
    /\ LET r == flush_mut(buf, ropes[c], cache[c], key)
           ok == r.fault = "none"
       IN  /\ buf' = r.buf
           /\ ropes' = [ropes EXCEPT ![c] = r.ropes]
           /\ cache' = [cache EXCEPT ![c] = r.cache]
           /\ dirty' = [dirty EXCEPT ![c] = IF ok THEN @ \ {key} ELSE @]
           /\ dead' = [dead EXCEPT ![c] = ~ok]
           /\ written' = Wrote(c, key, ok /\ Attached(c), IF ok THEN Unwrap(r.cache[key]).ver ELSE 0)
           /\ committed' = Commit(key, r.buf # buf, IF ok THEN cached_val(cache[c], key) ELSE None)
           /\ last' = Call("flush_mut", c, key, cached_val(cache[c], key), None, r.fault,
                           Pre(key), cache[c][key])
    /\ UNCHANGED <<next_key, heads, known, ninserts>>

Insert(c, val) ==
    /\ SlabCall
    /\ Attached(c) \/ next_key[c] < MaxDetached
    /\ LET r == insert(buf, ropes[c], cache[c], next_key[c], val)
           ok == r.fault = "none"
       IN  /\ buf' = r.buf
           /\ ropes' = [ropes EXCEPT ![c] = r.ropes]
           /\ cache' = [cache EXCEPT ![c] = r.cache]
           /\ next_key' = [next_key EXCEPT ![c] = r.next_key]
           /\ dirty' = [dirty EXCEPT ![c] = IF r.key \in Keys THEN @ \ {r.key} ELSE @]
           /\ dead' = [dead EXCEPT ![c] = ~ok]
           /\ known' = IF r.key \in Keys THEN known \cup {r.key} ELSE known
           /\ ninserts' = [ninserts EXCEPT ![c] = IF ok THEN @ + 1 ELSE @]
           /\ written' = Wrote(c, r.key, ok /\ Attached(c), IF ok THEN Unwrap(r.cache[r.key]).ver ELSE 0)
           /\ committed' = Commit(r.key, r.buf # buf, IF ok THEN Some(val) ELSE None)
           /\ last' = Call("insert", c, r.key, Some(val), Some(r.key), r.fault, Pre(r.key),
                           IF r.key \in Keys THEN cache[c][r.key] ELSE None)
    /\ UNCHANGED heads

Remove(c, key) ==
    /\ SlabCall
    /\ key \in known
    /\ LET r == remove(buf, ropes[c], cache[c], key)
           ok == r.fault = "none"
       IN  /\ buf' = r.buf
           /\ cache' = [cache EXCEPT ![c] = r.cache]
           /\ dirty' = [dirty EXCEPT ![c] = IF ok THEN @ \ {key} ELSE @]
           /\ dead' = [dead EXCEPT ![c] = ~ok]
           /\ committed' = Commit(key, Attached(c), None)
           /\ last' = Call("remove", c, key, None, r.res, r.fault, Pre(key), cache[c][key])
    /\ UNCHANGED <<ropes, next_key, written, heads, known, ninserts>>

\* vacant_entry_key, the slab's peek_next_key
VacantEntryKey(c) ==
    /\ SlabCall
    /\ LET r == alloc_peek(buf, ropes[c], next_key[c])
           ok == r.fault = "none"
       IN  /\ ropes' = [ropes EXCEPT ![c] = r.ropes]
           /\ dead' = [dead EXCEPT ![c] = ~ok]
           /\ last' = Call("vacant_entry_key", c, -1, None, Some(r.key), r.fault, 0, None)
    /\ UNCHANGED <<buf, cache, next_key, written, heads, known, dirty, ninserts, committed>>

Next ==
    \E c \in Ctx :
        \/ Attach(c)
        \/ \E key \in Keys : Get(c, key)
        \/ \E key \in Keys, val \in Vals : GetMut(c, key, val)
        \/ \E key \in Keys : FlushMut(c, key)
        \/ \E val \in Vals : Insert(c, val)
        \/ \E key \in Keys : Remove(c, key)
        \/ VacantEntryKey(c)

Spec == Init /\ [][Next]_vars

(***************************************************************************)
(* SpecShare: the slabs of Spec in the intended deployment, followed for   *)
(* more calls: context "A" creates the root (its only insert while         *)
(* detached) and attaches, the others attach to the buffer; the callers    *)
(* insert, get and remove.                                                 *)
(***************************************************************************)
ShareVals == {Pattern(1, 0), Pattern(1, 1)}

InitShare == InitSlabs /\ calls_left = MaxShareCalls

SumInserts == ninserts["A"] + ninserts["B"]

ShareInsert(c, val) ==
    /\ Attached(c) \/ (c = "A" /\ next_key[c] = 0)
    /\ SumInserts < MaxShareInserts
    /\ Insert(c, val)

NextShare ==
    \E c \in Ctx :
        \/ Attach(c)
        \/ \E key \in Keys : Get(c, key)
        \/ \E val \in ShareVals : ShareInsert(c, val)
        \/ \E key \in Keys : Remove(c, key)

SpecShare == InitShare /\ [][NextShare]_vars

(***************************************************************************)
(* SpecPull: the slabs of SpecShare over a buffer that another user of the *)
(* rope store writes too: RawInsertAt is an insert_at of bytes that are    *)
(* not the encoding of a value (a byte that is no array header, an array   *)
(* cut short).                                                             *)
(***************************************************************************)
RawBytes == {<<1>>, <<130, 1>>}

InitPull == InitSlabs /\ calls_left = MaxPullCalls

RawInsertAt(c, key, data) ==
    /\ SlabCall
    /\ Attached(c)
    /\ key \in known
    /\ InBuffer(key)
    /\ LET r == insert_at(buf, next_free(c), key, data)
       IN  /\ buf' = r.buf
           /\ ropes' = [ropes EXCEPT ![c] = Some([next_free |-> r.next_free])]
           /\ dead' = [dead EXCEPT ![c] = r.fault # "none"]
           /\ written' = Wrote(c, key, r.fault = "none", r.ver)
           /\ committed' = Commit(key, TRUE, IF r.fault = "none" THEN from_slice(data) ELSE None)
           /\ last' = Call("insert_at", c, key, Some(data), Some(r.ver), r.fault, Pre(key), cache[c][key])
    /\ UNCHANGED <<cache, next_key, heads, known, dirty, ninserts>>

PullInsert(c, val) ==
    /\ Attached(c) \/ (c = "A" /\ next_key[c] = 0)
    /\ SumInserts < MaxPullInserts
    /\ Insert(c, val)

NextPull ==
    \E c \in Ctx :
        \/ Attach(c)
        \/ \E key \in Keys : Get(c, key)
        \/ \E val \in ShareVals : PullInsert(c, val)
        \/ \E key \in Keys, data \in RawBytes : RawInsertAt(c, key, data)

SpecPull == InitPull /\ [][NextPull]_vars

(***************************************************************************)
(* SpecRace: the contexts of SpecRope, with insert_at run as the workers   *)
(* run it, an access of the shared buffer at a time up to the write of the *)
(* version word: the read of word 0 (InsertAtReadVer), the write of word 0 *)
(* (InsertAtWriteVer), and the rest of the call (InsertAtRest).  A context *)
(* that is not inside an insert_at reads version words (RaceVerPeek).  The *)
(* payloads fit the head chunk.                                            *)
(***************************************************************************)
RaceKeys == {0, 1}

RacePayloads == {Pattern(0, 0), Pattern(HeadCap, 0)}

InitRace ==
    /\ buf = ZeroBuffer
    /\ ropes = [c \in Ctx |-> Some([next_free |-> 1])]
    /\ cache = [c \in Ctx |-> [k \in Keys |-> None]]
    /\ next_key = [c \in Ctx |-> 0]
    /\ dead = [c \in Ctx |-> FALSE]
    /\ last = NoCall
    /\ written = [k \in Chunks |-> 0]
    /\ heads = {}
    /\ known = {0}
    /\ dirty = [c \in Ctx |-> {}]
    /\ ninserts = [c \in Ctx |-> 0]
    /\ committed = [k \in Chunks |-> None]
    /\ calls_left = MaxRaceSteps
    /\ AllIdle

RaceStep(c) == ~dead[c] /\ calls_left > 0 /\ calls_left' = calls_left - 1

\* let ver: u32 = self.storage.read_u32(key, 0) + 1
InsertAtReadVer(c, key, data) ==
    /\ RaceStep(c)
    /\ pc[c] = "idle"
    /\ frame' = [frame EXCEPT ![c] = [key |-> key, data |-> data, ver |-> read_u32(buf, key, 0) + 1]]
    /\ pc' = [pc EXCEPT ![c] = "write_ver"]
    /\ UNCHANGED <<buf, ropes, dead, last, written, heads, known, seen>>
    /\ SlabUnchanged

\* self.storage.write_u32(key, 0, ver)
InsertAtWriteVer(c) ==
    /\ RaceStep(c)
    /\ pc[c] = "write_ver"
    /\ buf' = write_u32(buf, frame[c].key, 0, frame[c].ver)
    /\ pc' = [pc EXCEPT ![c] = "rest"]
    /\ UNCHANGED <<ropes, dead, last, written, heads, known, frame, seen>>
    /\ SlabUnchanged

\* the length word, the payload, the continuation and the return of ver
InsertAtRest(c) ==
    /\ RaceStep(c)
    /\ pc[c] = "rest"
    /\ LET f == frame[c]
           r == insert_at_data(write_u32(buf, f.key, 1, Len(f.data)), next_free(c), f.key,
                               f.data, f.ver, read_u32(buf, f.key, 2),
                               byte_length(Len(f.data), 12))
       IN  /\ buf' = r.buf
           /\ ropes' = [ropes EXCEPT ![c] = Some([next_free |-> r.next_free])]
           /\ dead' = [dead EXCEPT ![c] = r.fault # "none"]
           /\ written' = IF r.fault = "none" THEN [written EXCEPT ![f.key] = r.ver] ELSE written
           /\ heads' = heads \cup {f.key}
           /\ last' = Call("insert_at", c, f.key, Some(f.data), Some(r.ver), r.fault, f.ver - 1, None)
    /\ pc' = [pc EXCEPT ![c] = "idle"]
    /\ UNCHANGED <<known, frame, seen>>
    /\ SlabUnchanged

RaceVerPeek(c, key) ==
    /\ RaceStep(c)
    /\ pc[c] = "idle"
    /\ seen' = [seen EXCEPT ![key] = IF ver_peek(buf, key) > @ THEN ver_peek(buf, key) ELSE @]
    /\ last' = Call("ver_peek", c, key, None, Some(ver_peek(buf, key)), "none", ver_peek(buf, key), None)
    /\ UNCHANGED <<buf, ropes, dead, written, heads, known, pc, frame>>
    /\ SlabUnchanged

NextRace ==
    \E c \in Ctx :
        \/ \E key \in RaceKeys, data \in RacePayloads : InsertAtReadVer(c, key, data)
        \/ InsertAtWriteVer(c)
        \/ InsertAtRest(c)
        \/ \E key \in RaceKeys : RaceVerPeek(c, key)

SpecRace == InitRace /\ [][NextRace]_vars

(***************************************************************************)
(* The slab's calls as the workers run them, one access of the shared      *)
(* buffer at a step.  pc[c] is the access context c makes next, frame[c]   *)
(* holds the locals of its call.  A flush_mut or insert goes through       *)
(* insert_at: the read of word 0, the writes of words 0 and 1, the read of *)
(* word 2, the copy of the payload into the head chunk, insert_cont (in    *)
(* one step), and the write of word 2 when it changed.  A get goes through *)
(* pull: the read of the version, and on a miss the read of the length     *)
(* word and, chunk by chunk, the copy of the payload and the read of the   *)
(* next-pointer.  What touches only the caller's own state (the cache, the *)
(* decoding, the return) happens with the access before it.               *)
(***************************************************************************)
\* the locals of a call: wrote lists what the insert_at has written so far,
\* len0 is the length word get read, nread the chunks it copied from
StepFrame(op, key, val, data, ver) ==
    [op |-> op, key |-> key, val |-> val, data |-> data, ver |-> ver, nxt_ |-> 0, nxt |-> 0,
     wrote |-> <<>>, len |-> 0, len0 |-> 0, vec |-> <<>>, cur |-> key, offset_data |-> 12,
     index_nxt |-> 2, nread |-> 0]

\* one more step; a run is followed up to its first panic
StepCall(c) ==
    /\ \A d \in Ctx : ~dead[d]
    /\ calls_left > 0
    /\ calls_left' = calls_left - 1
    /\ UNCHANGED <<seen, heads>>

\* the call of context c goes on at p with locals f
StepOn(c, p, f) ==
    /\ pc' = [pc EXCEPT ![c] = p]
    /\ frame' = [frame EXCEPT ![c] = f]
    /\ UNCHANGED <<last, dead>>

\* the call of context c ends (fault: the panic that ended it, or "none")
StepDone(c, call) ==
    /\ pc' = [pc EXCEPT ![c] = "idle"]
    /\ frame' = [frame EXCEPT ![c] = NoFrame]
    /\ dead' = [dead EXCEPT ![c] = ~call.ok]
    /\ last' = call

\* flush_mut(key) up to the first access of insert_at: the entry is
\* unwrapped, the value encoded, word 0 read
BeginFlush(c, key) ==
    /\ StepCall(c)
    /\ pc[c] = "idle"
    /\ Attached(c)
    /\ key \in known
    /\ InBuffer(key)
    /\ IsSome(cache[c][key])
    /\ StepOn(c, "write_ver",
              StepFrame("flush_mut", key, Unwrap(cache[c][key]).val,
                        to_vec(Unwrap(cache[c][key]).val), read_u32(buf, key, 0) + 1))
    /\ UNCHANGED <<buf, ropes, cache, next_key, written, known, dirty, ninserts, committed>>

\* insert(val) up to the call of flush_mut: alloc and the new cache entry
BeginInsert(c, val) ==
    /\ StepCall(c)
    /\ pc[c] = "idle"
    /\ Attached(c)
    /\ LET a == alloc(buf, ropes[c], next_key[c])
       IN  /\ ropes' = [ropes EXCEPT ![c] = a.ropes]
           /\ next_key' = [next_key EXCEPT ![c] = a.next_key]
           /\ IF a.fault = "none"
              THEN /\ cache' = [cache EXCEPT ![c][a.key] = Some(VEntry(0, val))]
                   /\ StepOn(c, "read_ver", StepFrame("insert", a.key, val, to_vec(val), 0))
              ELSE /\ cache' = cache
                   /\ StepDone(c, Call("insert", c, a.key, Some(val), None, a.fault, 0, None))
    /\ UNCHANGED <<buf, written, known, dirty, ninserts, committed>>

\* let ver: u32 = self.storage.read_u32(key, 0) + 1
StepReadVer(c) ==
    /\ StepCall(c)
    /\ pc[c] = "read_ver"
    /\ StepOn(c, "write_ver", [frame[c] EXCEPT !.ver = read_u32(buf, frame[c].key, 0) + 1])
    /\ UNCHANGED <<buf, ropes, cache, next_key, written, known, dirty, ninserts, committed>>

\* an insert_at that goes from the version write to the read of word 2: the
\* length word is not written
StepWriteVerSkipLen(c) ==
    /\ StepCall(c)
    /\ pc[c] = "write_ver"
    /\ buf' = write_u32(buf, frame[c].key, 0, frame[c].ver)
    /\ StepOn(c, "read_nxt", [frame[c] EXCEPT !.wrote = Append(@, "ver")])
    /\ UNCHANGED <<ropes, cache, next_key, written, known, dirty, ninserts, committed>>

\* self.storage.write_u32(key, 0, ver)
StepWriteVer(c) ==
    /\ StepCall(c)
    /\ pc[c] = "write_ver"
    /\ buf' = write_u32(buf, frame[c].key, 0, frame[c].ver)
    /\ StepOn(c, "write_len", [frame[c] EXCEPT !.wrote = Append(@, "ver")])
    /\ UNCHANGED <<ropes, cache, next_key, written, known, dirty, ninserts, committed>>

\* self.storage.write_u32(key, 1, data.len() as u32)
StepWriteLen(c) ==
    /\ StepCall(c)
    /\ pc[c] = "write_len"
    /\ buf' = write_u32(buf, frame[c].key, 1, Len(frame[c].data))
    /\ StepOn(c, "read_nxt", [frame[c] EXCEPT !.wrote = Append(@, "len")])
    /\ UNCHANGED <<ropes, cache, next_key, written, known, dirty, ninserts, committed>>

\* let nxt_ = self.storage.read_u32(key, 2)
StepReadNxt(c) ==
    /\ StepCall(c)
    /\ pc[c] = "read_nxt"
    /\ StepOn(c, "write_bytes", [frame[c] EXCEPT !.nxt_ = read_u32(buf, frame[c].key, 2)])
    /\ UNCHANGED <<buf, ropes, cache, next_key, written, known, dirty, ninserts, committed>>

\* a flush_mut that leaves the cached version as it was
FlushDoneStale(c, f) ==
    /\ cache' = cache
    /\ written' = [written EXCEPT ![f.key] = f.ver]
    /\ committed' = [committed EXCEPT ![f.key] = Some(f.val)]
    /\ known' = known \cup {f.key}
    /\ dirty' = [dirty EXCEPT ![c] = @ \ {f.key}]
    /\ ninserts' = [ninserts EXCEPT ![c] = IF f.op = "insert" THEN @ + 1 ELSE @]
    /\ StepDone(c, Call(f.op, c, f.key, Some(f.val),
                        IF f.op = "insert" THEN Some(f.key) ELSE None, "none", f.ver - 1, None))

\* insert_at returns ver: flush_mut stores it in the cache entry, and an
\* insert returns the key
FlushDone(c, f) ==
    /\ cache' = [cache EXCEPT ![c][f.key] = Some(VEntry(f.ver, Unwrap(cache[c][f.key]).val))]
    /\ written' = [written EXCEPT ![f.key] = f.ver]
    /\ committed' = [committed EXCEPT ![f.key] = Some(f.val)]
    /\ known' = known \cup {f.key}
    /\ dirty' = [dirty EXCEPT ![c] = @ \ {f.key}]
    /\ ninserts' = [ninserts EXCEPT ![c] = IF f.op = "insert" THEN @ + 1 ELSE @]
    /\ StepDone(c, Call(f.op, c, f.key, Some(f.val),
                        IF f.op = "insert" THEN Some(f.key) ELSE None, "none", f.ver - 1, None))

\* after the payload: write word 2 next if nxt differs from nxt_, else return
LinkOrDone(c, f, nxt) ==
    IF nxt # f.nxt_
    THEN /\ StepOn(c, "link", [f EXCEPT !.nxt = nxt])
         /\ UNCHANGED <<cache, written, known, dirty, ninserts, committed>>
    ELSE FlushDone(c, f)

\* let wr_len = self.storage.write_bytes(key, 4 * 3, data)
StepWriteBytes(c) ==
    /\ StepCall(c)
    /\ pc[c] = "write_bytes"
    /\ buf' = write_bytes(buf, frame[c].key, 12, frame[c].data)
    /\ IF byte_length(Len(frame[c].data), 12) < Len(frame[c].data)
       THEN /\ StepOn(c, "cont", [frame[c] EXCEPT !.wrote = Append(@, "bytes")])
            /\ UNCHANGED <<cache, written, known, dirty, ninserts, committed>>
       ELSE LinkOrDone(c, [frame[c] EXCEPT !.wrote = Append(@, "bytes")], 0)
    /\ UNCHANGED <<ropes, next_key>>

\* self.insert_cont(nxt_, &data[wr_len..])
StepCont(c) ==
    /\ StepCall(c)
    /\ pc[c] = "cont"
    /\ LET f == frame[c]
           r == insert_cont(buf, next_free(c), f.nxt_,
                            SubSeq(f.data, byte_length(Len(f.data), 12) + 1, Len(f.data)))
       IN  /\ buf' = r.buf
           /\ ropes' = [ropes EXCEPT ![c] = Some([next_free |-> r.next_free])]
           /\ IF r.fault = "none"
              THEN LinkOrDone(c, [f EXCEPT !.wrote = Append(@, "cont")], r.head)
              ELSE /\ StepDone(c, Call(f.op, c, f.key, Some(f.val), None, r.fault, f.ver - 1, None))
                   /\ UNCHANGED <<cache, written, known, dirty, ninserts, committed>>
    /\ UNCHANGED next_key

\* if nxt != nxt_ { self.storage.write_u32(key, 2, nxt); }
StepLink(c) ==
    /\ StepCall(c)
    /\ pc[c] = "link"
    /\ buf' = write_u32(buf, frame[c].key, 2, frame[c].nxt)
    /\ FlushDone(c, [frame[c] EXCEPT !.wrote = Append(@, "nxt")])
    /\ UNCHANGED <<ropes, next_key>>

\* the end of pull after a miss: the bytes are decoded and the value cached
GetDone(c, f, vec) ==
    LET r == pull_decoded(cache[c], f.key, f.ver, from_slice(vec))
    IN  /\ cache' = [cache EXCEPT ![c] = r.cache]
        /\ dirty' = [dirty EXCEPT ![c] = IF r.cache = cache[c] THEN @ ELSE @ \ {f.key}]
        /\ StepDone(c, Call("get", c, f.key, None, r.res, r.fault, f.ver, cache[c][f.key]))

\* get(key) up to the first access of pull: the read of the version word;
\* on a hit the cached value is returned
BeginGet(c, key) ==
    /\ StepCall(c)
    /\ pc[c] = "idle"
    /\ Attached(c)
    /\ key \in known
    /\ InBuffer(key)
    /\ IF same_ver(cache[c][key], ver_peek(buf, key))
       THEN StepDone(c, Call("get", c, key, None, cached_val(cache[c], key), "none",
                             ver_peek(buf, key), cache[c][key]))
       ELSE StepOn(c, "get_len", StepFrame("get", key, <<>>, <<>>, ver_peek(buf, key)))
    /\ UNCHANGED <<buf, ropes, cache, next_key, written, known, dirty, ninserts, committed>>

\* let mut len = self.storage.read_u32(key, 1) as usize
StepGetLen(c) ==
    /\ StepCall(c)
    /\ pc[c] = "get_len"
    /\ IF read_u32(buf, frame[c].key, 1) = 0
       THEN GetDone(c, frame[c], <<>>)
       ELSE /\ StepOn(c, "get_bytes", [frame[c] EXCEPT !.len = read_u32(buf, frame[c].key, 1),
                                                        !.len0 = read_u32(buf, frame[c].key, 1)])
            /\ UNCHANGED <<cache, dirty>>
    /\ UNCHANGED <<buf, ropes, next_key, written, known, ninserts, committed>>

\* let rd_cnt = self.storage.read_bytes_into(cur, offset_data, &mut vec[offset..])
StepGetBytes(c) ==
    /\ StepCall(c)
    /\ pc[c] = "get_bytes"
    /\ LET f == frame[c]
           vec == f.vec \o read_bytes_into(buf, f.cur, f.offset_data, f.len)
           len == f.len - byte_length(f.len, f.offset_data)
       IN  IF ~InBuffer(f.cur)
           THEN /\ StepDone(c, Call("get", c, f.key, None, None, "RangeError", f.ver, cache[c][f.key]))
                /\ UNCHANGED <<cache, dirty>>
           ELSE IF len > 0
           THEN /\ StepOn(c, "get_next", [f EXCEPT !.vec = vec, !.len = len, !.nread = @ + 1])
                /\ UNCHANGED <<cache, dirty>>
           ELSE GetDone(c, f, vec)
    /\ UNCHANGED <<buf, ropes, next_key, written, known, ninserts, committed>>

\* cur = self.storage.read_u32(cur, index_nxt) as usize
StepGetNext(c) ==
    /\ StepCall(c)
    /\ pc[c] = "get_next"
    /\ StepOn(c, "get_bytes", [frame[c] EXCEPT !.cur = read_u32(buf, frame[c].cur, frame[c].index_nxt),
                                                  !.offset_data = 4, !.index_nxt = 0])
    /\ UNCHANGED <<buf, ropes, cache, next_key, written, known, dirty, ninserts, committed>>

\* get_mut and the caller's store, by a context that is in no call
StepGetMut(c, key, val) ==
    /\ pc[c] = "idle"
    /\ Attached(c)
    /\ GetMut(c, key, val)

(***************************************************************************)
(* SpecTear: two attached slabs over a buffer that holds the root; the     *)
(* caller of A changes the root through get_mut and flush_mut, the callers *)
(* of A and B read it with get, the accesses of the two contexts           *)
(* interleaved.                                                            *)
(***************************************************************************)
\* the state after A = new(), A.insert(v0), A.attach(buffer) and B = new(),
\* B.attach(buffer)
RootCache(v0) == [k \in Keys |-> IF k = 0 THEN Some(VEntry(0, v0)) ELSE None]

InitRooted(v0) ==
    /\ buf = attach(ZeroBuffer, RootCache(v0)).buf
    /\ ropes = [c \in Ctx |-> IF c = "A" THEN attach(ZeroBuffer, RootCache(v0)).ropes
                              ELSE Some([next_free |-> 1])]
    /\ cache = [c \in Ctx |-> IF c = "A" THEN RootCache(v0) ELSE [k \in Keys |-> None]]
    /\ next_key = [c \in Ctx |-> IF c = "A" THEN 1 ELSE 0]
    /\ dead = [c \in Ctx |-> FALSE]
    /\ last = NoCall
    /\ written = [k \in Chunks |-> IF k = 0 THEN 1 ELSE 0]
    /\ heads = {}
    /\ known = {0}
    /\ dirty = [c \in Ctx |-> {}]
    /\ ninserts = [c \in Ctx |-> IF c = "A" THEN 1 ELSE 0]
    /\ committed = [k \in Chunks |-> IF k = 0 THEN Some(v0) ELSE None]
    /\ AllIdle

InitTear == calls_left = MaxTearSteps /\ \E v0 \in Vals : InitRooted(v0)

\* context "A" is the writer; both contexts read
NextTear ==
    \/ \E key \in Keys, val \in Vals : StepGetMut("A", key, val)
    \/ \E key \in Keys : BeginFlush("A", key)
    \/ StepWriteVer("A")
    \/ StepWriteLen("A")
    \/ StepReadNxt("A")
    \/ StepWriteBytes("A")
    \/ StepCont("A")
    \/ StepLink("A")
    \/ \E c \in Ctx :
           \/ \E key \in Keys : BeginGet(c, key)
           \/ StepGetLen(c)
           \/ StepGetBytes(c)
           \/ StepGetNext(c)

SpecTear == InitTear /\ [][NextTear]_vars

(***************************************************************************)
(* SpecAlloc: two attached slabs over a buffer that holds the root; the    *)
(* callers of both insert values, the accesses of the two contexts         *)
(* interleaved.                                                            *)
(***************************************************************************)
InitAlloc == calls_left = MaxAllocSteps /\ \E v0 \in ShareVals : InitRooted(v0)

NextAlloc ==
    \E c \in Ctx :
        \/ \E val \in Vals : BeginInsert(c, val)
        \/ StepReadVer(c)
        \/ StepWriteVer(c)
        \/ StepWriteLen(c)
        \/ StepReadNxt(c)
        \/ StepWriteBytes(c)
        \/ StepCont(c)
        \/ StepLink(c)

SpecAlloc == InitAlloc /\ [][NextAlloc]_vars

(***************************************************************************)
(* SpecGet: two slabs attached to a buffer they did not write: every chunk *)
(* holds a length word and next-pointers that stay inside the buffer (to   *)
(* chunk 0, to chunk 1, to the chunk itself, round all the chunks, or a    *)
(* chain that ends at the free chunks).  The callers read any chunk as a   *)
(* key and insert values that fit a head chunk, the accesses of the two    *)
(* contexts interleaved.                                                   *)
(***************************************************************************)
\* the length words: nothing, a full head chunk, and one byte more than the
\* head chunk with zero, one and two full continuation chunks
GetLens == {0, HeadCap, HeadCap + 1, HeadCap + ContCap + 1, HeadCap + 2 * ContCap + 1}

PtrMaps ==
    { [j \in Chunks |-> 0],
      [j \in Chunks |-> 1],
      [j \in Chunks |-> j],
      [j \in Chunks |-> (j + 1) % NChunks],
      [j \in Chunks |-> IF j < 2 THEN j + 1 ELSE 0] }

\* chunks j.. of b with next-pointer P[j] in words 0 and 2 and length L in
\* word 1; word 0 of chunk 0 is the root's version, 1
RECURSIVE FillChunks(_, _, _, _)
FillChunks(b, j, L, P) ==
    IF j = NChunks THEN b
    ELSE FillChunks(write_u32(write_u32(write_u32(b, j, 0, IF j = 0 THEN 1 ELSE P[j]),
                                        j, 1, L),
                              j, 2, P[j]),
                    j + 1, L, P)

InitGet ==
    /\ \E L \in GetLens, P \in PtrMaps : buf = FillChunks(ZeroBuffer, 0, L, P)
    /\ ropes = [c \in Ctx |-> Some([next_free |-> 1])]
    /\ cache = [c \in Ctx |-> [k \in Keys |-> None]]
    /\ next_key = [c \in Ctx |-> 0]
    /\ dead = [c \in Ctx |-> FALSE]
    /\ last = NoCall
    /\ written = [k \in Chunks |-> 0]
    /\ heads = {}
    /\ known = Chunks
    /\ dirty = [c \in Ctx |-> {}]
    /\ ninserts = [c \in Ctx |-> 0]
    /\ committed = [k \in Chunks |-> None]
    /\ calls_left = MaxGetSteps
    /\ AllIdle

NextGet ==
    \E c \in Ctx :
        \/ \E key \in Keys : BeginGet(c, key)
        \/ StepGetLen(c)
        \/ StepGetBytes(c)
        \/ StepGetNext(c)
        \/ \E val \in ShareVals : BeginInsert(c, val)
        \/ StepReadVer(c)
        \/ StepWriteVer(c)
        \/ StepWriteLen(c)
        \/ StepReadNxt(c)
        \/ StepWriteBytes(c)

SpecGet == InitGet /\ [][NextGet]_vars

(***************************************************************************)
(* SpecHold: the rope store as SharedSlab::insert and flush_mut use it: a  *)
(* context takes a key from alloc and gives it to insert_at in a later     *)
(* call, whatever the other context did to the buffer in between; alloc    *)
(* reserves nothing.  Every call runs to completion.                       *)
(***************************************************************************)
\* insert_at at the root key or at a key alloc returned, with no look at
\* what the chunk holds by now
RopeInsertAtHeld(c, key, data) ==
    /\ ~dead[c]
    /\ RopeCall
    /\ key \in known
    /\ LET r == insert_at(buf, next_free(c), key, data)
           ok == r.fault = "none"
       IN  /\ buf' = r.buf
           /\ ropes' = [ropes EXCEPT ![c] = Some([next_free |-> r.next_free])]
           /\ dead' = [dead EXCEPT ![c] = ~ok]
           /\ written' = IF ok THEN [written EXCEPT ![key] = r.ver] ELSE written
           /\ heads' = heads \cup {key}
           /\ last' = Call("insert_at", c, key, Some(data), Some(r.ver), r.fault, ver_peek(buf, key), None)
    /\ UNCHANGED known
    /\ SlabUnchanged

NextHold ==
    \E c \in Ctx :
        \/ RopeAlloc(c)
        \/ \E key \in Chunks, data \in Payloads : RopeInsertAtHeld(c, key, data)
        \/ \E key \in Chunks : RopeGet(c, key)

SpecHold == InitRope /\ [][NextHold]_vars

(***************************************************************************)
(* The claims.                                                             *)
(***************************************************************************)
\* the step is a call (every call takes one from calls_left)
IsCall == calls_left' # calls_left

\* C1 (SpecRope): for every key, the version words read after the successful
\* insert_at calls at the key form a strictly increasing sequence, over the
\* whole history of the key, removes included: a successful insert_at leaves
\* a version above the one the last successful insert_at at the key left.
C1_VersionsStrictlyIncrease ==
    [][(IsCall /\ last'.op = "insert_at" /\ last'.ok)
          => ver_peek(buf', last'.key) > written[last'.key]]_vars

\* C2 (Spec): in every state where no call failed, an attached slab's cache
\* entry of key k whose version equals the version word of k and that has no
\* unflushed mutation holds the decoding of the bytes the rope get(k) returns.
C2_CachedIsDecoded ==
    (\A d \in Ctx : ~dead[d]) =>
        \A c \in Ctx, k \in Chunks :
            (/\ Attached(c)
             /\ IsSome(cache[c][k])
             /\ Unwrap(cache[c][k]).ver = ver_peek(buf, k)
             /\ k \notin dirty[c])
            => /\ ropes_get(buf, k).fault = "none"
               /\ from_slice(ropes_get(buf, k).vec) = Some(Unwrap(cache[c][k]).val)

\* C3 (SpecShare): when the last write to key k was a completed flush of
\* value x by some context, a get(k) of an attached context returns x,
\* whatever its cache held for k before the call.
C3_GetReturnsFlushed ==
    (/\ last.op = "get"
     /\ last.ok
     /\ Attached(last.ctx)
     /\ InBuffer(last.key)
     /\ IsSome(committed[last.key]))
    => last.res = committed[last.key]

\* C4 (SpecRope): after insert_at(k, bytes) completed at a key that was
\* unwritten or a head, word 1 of k is the length of bytes and get(k)
\* returns exactly bytes, for every payload length and whatever k held.
C4_InsertThenGet ==
    (last.op = "insert_at" /\ last.ok)
    => /\ read_u32(buf, last.key, 1) = Len(Unwrap(last.arg))
       /\ ropes_get(buf, last.key) = [vec |-> Unwrap(last.arg), fault |-> "none"]

\* an insert_at of a three-chunk payload over a key written before
C4_Witness ==
    /\ last.op = "insert_at"
    /\ last.ok
    /\ last.pre >= 1
    /\ Len(Unwrap(last.arg)) > HeadCap + ContCap

\* C5 (Spec): a get(k) writes nothing to the shared buffer (the version word
\* of k and every other byte are as before the call), and a get(k) that
\* directly follows a get(k) of the same slab returns the same value.
C5_GetWritesNothing ==
    [][(IsCall /\ last'.op = "get")
          => /\ buf' = buf
             /\ (last.op = "get" /\ last.ok /\ last.ctx = last'.ctx /\ last.key = last'.key)
                => (last'.ok /\ last'.res = last.res)]_vars

\* a get of an attached slab that reloaded the entry from the buffer
C5_Witness ==
    /\ last.op = "get"
    /\ last.ok
    /\ Attached(last.ctx)
    /\ IsSome(last.res)
    /\ last.had # cache[last.ctx][last.key]

\* C6 (SpecRope): alloc never returns a chunk whose version word is not
\* zero at the time of the call, so it returns no key given to insert_at
\* that is still written, in the same or another context.
C6_AllocIsUnwritten ==
    (last.op = "alloc" /\ last.ok)
    => /\ ver_peek(buf, Unwrap(last.res)) = 0
       /\ Unwrap(last.res) \notin heads

\* an alloc that moved over a written chunk
C6_Witness ==
    /\ last.op = "alloc"
    /\ last.ok
    /\ Unwrap(last.res) > last.pre
    /\ heads # {}

\* C7 (Spec): right after vacant_entry_key returned key k, an insert on the
\* same slab returns k and another vacant_entry_key returns k, attached and
\* detached.
C7_PeekIsNextInsert ==
    (last.op = "vacant_entry_key" /\ last.ok)
    => /\ alloc_peek(buf, ropes[last.ctx], next_key[last.ctx]).key = Unwrap(last.res)
       /\ \A val \in Vals :
              insert(buf, ropes[last.ctx], cache[last.ctx], next_key[last.ctx], val).fault = "none"
              => insert(buf, ropes[last.ctx], cache[last.ctx], next_key[last.ctx], val).key
                     = Unwrap(last.res)

\* a vacant_entry_key of an attached slab that moved over written chunks
C7_Witness ==
    /\ last.op = "vacant_entry_key"
    /\ last.ok
    /\ Attached(last.ctx)
    /\ Unwrap(last.res) > 1
    /\ calls_left > 0

\* C8 (Spec): after flush_mut(k), and after insert returned k, on an attached
\* slab, the cached version of k is the version word of k and is one more
\* than the version word before the call (1 for a key never written).
C8_FlushSetsVersion ==
    (last.op \in {"flush_mut", "insert"} /\ last.ok /\ Attached(last.ctx))
    => /\ Unwrap(cache[last.ctx][last.key]).ver = ver_peek(buf, last.key)
       /\ Unwrap(cache[last.ctx][last.key]).ver = last.pre + 1

\* a flush_mut of a key written before
C8_Witness ==
    /\ last.op = "flush_mut"
    /\ last.ok
    /\ Attached(last.ctx)
    /\ last.pre >= 1

\* the values a slab's cache c1 holds are those of c0, but arg at key
ValuesAre(c1, c0, key, arg) ==
    \A k \in Keys : cached_val(c1, k) = IF k = key THEN arg ELSE cached_val(c0, k)

\* C9 (Spec): a slab never attached is an in-memory map: its n-th insert
\* (from 0) returns key n and stores the value there, get(k) returns the
\* value stored at k, None for a key not inserted, get_mut stores at k, no
\* other call changes a stored value, and no call of the slab changes the
\* buffer.
C9_DetachedIsMap ==
    [][\A c \in Ctx :
          /\ (IsCall /\ last'.ctx # c) => cache'[c] = cache[c]
          /\ (IsCall /\ last'.ctx = c /\ ropes'[c] = None)
             => /\ buf' = buf
                /\ last'.op = "insert"
                   => /\ last'.ok
                      /\ last'.res = Some(ninserts[c])
                      /\ ValuesAre(cache'[c], cache[c], ninserts[c], last'.arg)
                /\ last'.op = "get"
                   => /\ last'.ok
                      /\ last'.res = cached_val(cache[c], last'.key)
                      /\ last'.key >= ninserts[c] => last'.res = None
                      /\ cache'[c] = cache[c]
                /\ last'.op = "get_mut"
                   => ValuesAre(cache'[c], cache[c], last'.key, last'.arg)
                /\ last'.op \notin {"insert", "get", "get_mut"}
                   => ValuesAre(cache'[c], cache[c], -1, None)]_vars

\* a get of a slab never attached, after its second insert, returned a value
C9_Witness ==
    /\ last.op = "get"
    /\ last.ok
    /\ ~Attached(last.ctx)
    /\ ninserts[last.ctx] = 2
    /\ IsSome(last.res)

\* C10 (Spec): remove(k) on a slab never attached that holds an entry for k
\* returns the cached value and drops the entry, without failing.
C10_DetachedRemove ==
    (last.op = "remove" /\ ~Attached(last.ctx) /\ IsSome(last.had))
    => /\ last.ok
       /\ last.res = Some(Unwrap(last.had).val)
       /\ cache[last.ctx][last.key] = None

\* C11 (Spec): attach by a slab whose cache holds a value for key 0, to a
\* buffer whose version word of key 0 is 0, writes the value at key 0: the
\* version is then 1, the bytes of rope get(0) decode to the cached root
\* value, and a get(0) on the slab returns that value.
C11_AttachWritesRoot ==
    (last.op = "attach" /\ last.ok /\ last.pre = 0 /\ IsSome(last.had))
    => /\ ver_peek(buf, 0) = 1
       /\ ropes_get(buf, 0).fault = "none"
       /\ from_slice(ropes_get(buf, 0).vec) = Some(Unwrap(last.had).val)
       /\ pull(buf, ropes[last.ctx], cache[last.ctx], 0).fault = "none"
       /\ pull(buf, ropes[last.ctx], cache[last.ctx], 0).res = Some(Unwrap(last.had).val)

\* an attach that wrote a root whose encoding needs a continuation chunk
C11_Witness ==
    /\ last.op = "attach"
    /\ last.ok
    /\ last.pre = 0
    /\ IsSome(last.had)
    /\ Len(to_vec(Unwrap(last.had).val)) > HeadCap

\* C12 (Spec): attach to a buffer whose version word of key 0 is not 0
\* writes nothing to the buffer, and a get(0) on the slab then returns the
\* root value the buffer holds, not the value the slab cached before.
C12_AttachObservesRoot ==
    [][(IsCall /\ last'.op = "attach" /\ ver_peek(buf, 0) # 0)
          => /\ last'.ok
             /\ buf' = buf
             /\ pull(buf', ropes'[last'.ctx], cache'[last'.ctx], 0).fault = "none"
             /\ IsSome(pull(buf', ropes'[last'.ctx], cache'[last'.ctx], 0).res)
             /\ pull(buf', ropes'[last'.ctx], cache'[last'.ctx], 0).res
                    = from_slice(ropes_get(buf', 0).vec)]_vars

\* an attach, to a buffer that holds a root, by a slab that cached another
\* value for key 0
C12_Witness ==
    /\ last.op = "attach"
    /\ last.ok
    /\ last.pre # 0
    /\ IsSome(last.had)
    /\ IsSome(committed[0])
    /\ Some(Unwrap(last.had).val) # committed[0]

\* C13 (Spec): attach to a buffer whose version word of key 0 is 0, by a slab
\* whose cache holds no entry for key 0, completes without failure and
\* writes nothing.
C13_AttachWithoutRoot ==
    (last.op = "attach" /\ last.pre = 0 /\ ~IsSome(last.had))
    => /\ last.ok
       /\ ver_peek(buf, 0) = 0

\* C14 (SpecPull): when pull(k), called by get(k) on an attached slab, finds the cached
\* version of k differing from the version word and the bytes of k do not
\* decode, it fails with InvalidData, returns no value, and leaves the cache
\* entry of k (value and version) as it was.
C14_PullFailsInvalidData ==
    (/\ last.op = "get"
     /\ Attached(last.ctx)
     /\ InBuffer(last.key)
     /\ ~same_ver(last.had, last.pre)
     /\ ropes_get(buf, last.key).fault = "none"
     /\ from_slice(ropes_get(buf, last.key).vec) = None)
    => /\ last.fault = "InvalidData"
       /\ last.res = None
       /\ cache[last.ctx][last.key] = last.had

\* a get that failed to decode the bytes of a key the slab had cached
C14_Witness ==
    /\ last.op = "get"
    /\ last.fault = "InvalidData"
    /\ IsSome(last.had)

\* C15 (Spec): a get(k) whose payload fails to decode returns to its caller
\* with the InvalidData outcome: the call does not abort the context.
C15_ErrorsReachCaller ==
    (last.op \in {"get", "get_mut"} /\ last.fault = "InvalidData")
    => ~dead[last.ctx]

\* the scan of alloc_peek from next_free leaves buffer b: no chunk at or
\* after next_free has version word 0
Exhausted(b, nf) == ropes_alloc_peek(b, nf) = NChunks

C17_VersionAboveObserved ==
    [][\A c \in Ctx :
          (pc[c] = "write_ver" /\ pc'[c] = "rest")
          => frame[c].ver > seen[frame[c].key]]_vars

\* the chunks get reads for len bytes from chunk cur on, in order
RECURSIVE Chain(_, _, _, _, _)
Chain(b, cur, offset_data, index_nxt, len) ==
    IF len = 0 \/ ~InBuffer(cur) THEN <<>>
    ELSE IF len > byte_length(len, offset_data)
         THEN <<cur>> \o Chain(b, read_u32(b, cur, index_nxt), 4, 0,
                               len - byte_length(len, offset_data))
         ELSE <<cur>>

\* the chain of key: its head and the continuation chunks that hold payload
ChainOf(b, key) ==
    IF read_u32(b, key, 1) <= HeadCap \/ read_u32(b, key, 1) > BufBytes THEN <<key>>
    ELSE Chain(b, key, 12, 2, read_u32(b, key, 1))

\* the next-pointer of the last chunk of the chain of key
LastNext(b, key) ==
    IF Len(ChainOf(b, key)) = 1 THEN read_u32(b, key, 2)
    ELSE read_u32(b, ChainOf(b, key)[Len(ChainOf(b, key))], 0)

\* key is live: a head whose last insert_at completed and was not removed
Live(k) == k \in heads /\ ver_peek(buf, k) # 0 /\ ver_peek(buf, k) = written[k]

\* the chunks a payload of n bytes takes
ChunksFor(n) == IF n <= HeadCap THEN 1 ELSE 1 + ((n - HeadCap + ContCap - 1) \div ContCap)

\* C18 (SpecRope): for every live key, every next-pointer get follows while
\* it reads the payload (word 2 of the head, word 0 of a continuation chunk)
\* is above 1, and the next-pointer of the last chunk that holds payload is
\* 0 or 1.
C18_FollowedPointersAboveOne ==
    \A k \in Chunks :
        Live(k) =>
            /\ \A i \in 2 .. Len(ChainOf(buf, k)) : ChainOf(buf, k)[i] > 1
            /\ LastNext(buf, k) \in {0, 1}

\* C19 (SpecRope): after an insert_at of a payload longer than the head
\* chunk holds, the last continuation chunk that holds payload has word 0
\* equal to 1, and every chunk of the chain has a word 0 that is not 0.
C19_ChainEndsWithOne ==
    (last.op = "insert_at" /\ last.ok /\ Len(Unwrap(last.arg)) > HeadCap)
    => /\ Len(ChainOf(buf, last.key)) = ChunksFor(Len(Unwrap(last.arg)))
       /\ LastNext(buf, last.key) = 1
       /\ \A i \in 1 .. Len(ChainOf(buf, last.key)) :
              read_u32(buf, ChainOf(buf, last.key)[i], 0) # 0

\* an insert_at of a payload that takes three chunks, over a shorter one
C19_Witness ==
    /\ last.op = "insert_at"
    /\ last.ok
    /\ ChunksFor(Len(Unwrap(last.arg))) = 3
    /\ last.pre >= 1

\* C20 (SpecRope): an insert_at over a live multi-chunk record, of a payload
\* that takes the same number of chunks, allocates nothing: next_free is
\* unchanged and the chain of the key is made of the same chunks as before.
C20_SameLengthReusesChain ==
    [][(/\ IsCall
        /\ last'.op = "insert_at"
        /\ last'.ok
        /\ Live(last'.key)
        /\ Len(ChainOf(buf, last'.key)) > 1
        /\ ChunksFor(Len(Unwrap(last'.arg))) = Len(ChainOf(buf, last'.key)))
          => /\ ropes'[last'.ctx] = ropes[last'.ctx]
             /\ ChainOf(buf', last'.key) = ChainOf(buf, last'.key)]_vars

\* the first n chunks met from chunk cur on by following the next-pointers,
\* whatever the length word says
RECURSIVE Follow(_, _, _, _)
Follow(b, cur, index_nxt, n) ==
    IF n = 0 \/ ~InBuffer(cur) THEN <<>>
    ELSE <<cur>> \o Follow(b, read_u32(b, cur, index_nxt), 0, n - 1)

\* an insert_at step over the live key last'.key whose payload takes fewer
\* chunks than the chain of the key has
ShrinkingInsert ==
    /\ IsCall
    /\ last'.op = "insert_at"
    /\ last'.ok
    /\ Live(last'.key)
    /\ ChunksFor(Len(Unwrap(last'.arg))) < Len(ChainOf(buf, last'.key))

\* C21 (SpecRope): after an insert_at over a live key k of a payload that
\* takes fewer chunks than the one before, the chunks of the old chain are
\* all still met by following the next-pointers from k, and an insert_at
\* at k of any payload that takes no more chunks than the old chain had
\* allocates nothing (next_free stays as it is).
C21_DroppedChunksReused ==
    [][ShrinkingInsert
          => /\ Follow(buf', last'.key, 2, Len(ChainOf(buf, last'.key))) = ChainOf(buf, last'.key)
             /\ \A data \in Payloads :
                    ChunksFor(Len(data)) <= Len(ChainOf(buf, last'.key))
                    => insert_at(buf', Unwrap(ropes'[last'.ctx]).next_free, last'.key, data).next_free
                         = Unwrap(ropes'[last'.ctx]).next_free]_vars

\* C25 (SpecRope): an alloc or alloc_peek that returns gives the lowest
\* chunk index at or above next_free whose version word is 0; after alloc
\* next_free is that index + 1, after alloc_peek next_free is what it was
\* before the call.
C25_AllocLowestAndPeekKeeps ==
    [][(IsCall /\ last'.ok /\ last'.op \in {"alloc", "alloc_peek"})
          => /\ Unwrap(last'.res) >= last'.pre
             /\ ver_peek(buf, Unwrap(last'.res)) = 0
             /\ \A j \in last'.pre .. (Unwrap(last'.res) - 1) : ver_peek(buf, j) # 0
             /\ last'.op = "alloc"
                  => Unwrap(ropes'[last'.ctx]).next_free = Unwrap(last'.res) + 1
             /\ last'.op = "alloc_peek"
                  => Unwrap(ropes'[last'.ctx]).next_free = last'.pre]_vars

\* the chunks a payload of n bytes takes with chunks of c bytes
ChunksOf(n, c) == IF n <= c - 12 THEN 1 ELSE 1 + ((n - (c - 12) + (c - 4) - 1) \div (c - 4))

\* the elements of a sequence
Range(q) == {q[i] : i \in 1 .. Len(q)}

\* C26 (SpecRope): after an insert_at of L bytes at a key whose chunk was
\* never written (words 0, 1 and 2 are zero), the chain of the key spans
\* exactly 1 chunk when L <= C-12 and 1 + ceil((L - (C-12)) / (C-4)) chunks
\* otherwise, all different, and ends there (the next-pointer of the last
\* chunk is 0 or 1); the chunks hold at least L payload bytes, and one chunk
\* fewer would not.  For L = 3000 and C = 1024 that is 3 chunks.
C26_ChainSpansExactly ==
    /\ ChunksOf(3000, 1024) = 3
    /\ [][(/\ IsCall
           /\ last'.op = "insert_at"
           /\ last'.ok
           /\ read_u32(buf, last'.key, 0) = 0
           /\ read_u32(buf, last'.key, 1) = 0
           /\ read_u32(buf, last'.key, 2) = 0)
          => LET L == Len(Unwrap(last'.arg))
                 ch == ChainOf(buf', last'.key)
             IN  /\ Len(ch) = ChunksOf(L, chunk_size)
                 /\ Cardinality(Range(ch)) = Len(ch)
                 /\ HeadCap + (Len(ch) - 1) * ContCap >= L
                 /\ Len(ch) > 1 => HeadCap + (Len(ch) - 2) * ContCap < L
                 /\ LastNext(buf', last'.key) \in {0, 1}]_vars

\* an insert_at of a three-chunk payload at a never-written key
C26_Witness ==
    /\ last.op = "insert_at"
    /\ last.ok
    /\ last.pre = 0
    /\ written[last.key] = 1
    /\ Len(Unwrap(last.arg)) = HeadCap + ContCap + 1
    /\ Len(ChainOf(buf, last.key)) = 3

C29_RemovedIsGone ==
    (/\ last.op = "get"
     /\ Attached(last.ctx)
     /\ InBuffer(last.key)
     /\ written[last.key] # 0
     /\ last.pre = 0)
    => (last.ok /\ last.res = None)

\* C30 (Spec): a get(k) of an attached slab, of a key whose chunk was never
\* written (version word 0, length word 0) and that has no cache entry,
\* returns None without failing and leaves the key without a cache entry.
C30_GetOfUnwrittenIsNone ==
    (/\ last.op = "get"
     /\ Attached(last.ctx)
     /\ InBuffer(last.key)
     /\ last.pre = 0
     /\ read_u32(buf, last.key, 1) = 0
     /\ ~IsSome(last.had))
    => /\ last.ok
       /\ last.res = None
       /\ ~IsSome(cache[last.ctx][last.key])

\* C22 (SpecTear): a get(k) that returns leaves the cache entry of k at the
\* version it read at its start with the value it returned; when the entry
\* had that version already, the get returns the cached value, whatever the
\* payload in the buffer is.  (So a value decoded from bytes read while a
\* writer was between its version write and its payload write is cached
\* under the new version and returned for as long as the version stays.)
C22_TornValueIsKept ==
    (last.op = "get" /\ last.ok)
    => /\ IsSome(last.res)
       /\ cache[last.ctx][last.key] = Some(VEntry(last.pre, Unwrap(last.res)))
       /\ (IsSome(last.had) /\ Unwrap(last.had).ver = last.pre)
            => last.res = Some(Unwrap(last.had).val)

\* the writer's flush is complete and the buffer holds the new value under
\* the version the reader cached, and the reader's get returned another
\* value from its cache
C22_Witness ==
    /\ last.op = "get"
    /\ last.ok
    /\ last.ctx = "B"
    /\ IsSome(last.had)
    /\ Unwrap(last.had).ver = last.pre
    /\ \A c \in Ctx : pc[c] = "idle"
    /\ ver_peek(buf, last.key) = last.pre
    /\ written[last.key] = last.pre
    /\ ropes_get(buf, last.key).fault = "none"
    /\ from_slice(ropes_get(buf, last.key).vec) = committed[last.key]
    /\ last.res # committed[last.key]

\* context c is inside insert_at, at or after its first write
InInsertAt(c) == pc[c] \in {"write_ver", "write_len", "read_nxt", "write_bytes", "cont", "link"}

\* words 0, 1 and 2 of chunk key are the same in the buffers b1 and b2
SameHeader(b1, b2, key) == \A w \in 0 .. 2 : read_u32(b1, key, w) = read_u32(b2, key, w)

\* C24 as stated (SpecTear): within one insert_at, words 0, 1 and 2 of the
\* key have their final values before the first payload byte is written:
\* once the payload copy into the head chunk is done, no step of the call
\* changes word 0, 1 or 2.
C24_HeaderBeforePayload ==
    [][\A c \in Ctx :
          (pc[c] \in {"cont", "link"} /\ pc'[c] # pc[c])
          => SameHeader(buf, buf', frame[c].key)]_vars

\* C24 amended (SpecTear): within one insert_at the writes come in this
\* order: word 0 (the version), word 1 (the length), the payload bytes of
\* the head chunk, the continuation chunks, and last word 2, written only
\* when it changes.  No payload byte is written before words 0 and 1 have
\* their final values; word 2 gets its final value after the payload.
C24_WriteOrder ==
    [][\A c \in Ctx :
          (InInsertAt(c) /\ pc'[c] # pc[c])
          => LET f == frame[c]
             IN  /\ pc[c] = "write_ver"
                    => f.wrote = <<>> /\ buf' = write_u32(buf, f.key, 0, f.ver)
                 /\ pc[c] = "write_len"
                    => f.wrote = <<"ver">> /\ buf' = write_u32(buf, f.key, 1, Len(f.data))
                 /\ pc[c] = "read_nxt" => buf' = buf
                 /\ pc[c] = "write_bytes"
                    => /\ f.wrote = <<"ver", "len">>
                       /\ read_u32(buf, f.key, 0) = f.ver
                       /\ read_u32(buf, f.key, 1) = Len(f.data)
                       /\ buf' = write_bytes(buf, f.key, 12, f.data)
                 /\ pc[c] = "cont"
                    => /\ f.wrote = <<"ver", "len", "bytes">>
                       /\ SameHeader(buf, buf', f.key)
                 /\ pc[c] = "link"
                    => /\ f.wrote \in {<<"ver", "len", "bytes">>, <<"ver", "len", "bytes", "cont">>}
                       /\ read_u32(buf, f.key, 0) = f.ver
                       /\ read_u32(buf, f.key, 1) = Len(f.data)
                       /\ buf' = write_u32(buf, f.key, 2, f.nxt)
                       /\ read_u32(buf, f.key, 2) # f.nxt
                       /\ pc'[c] = "idle"]_vars

\* an insert_at that wrote its continuation chunk and has word 2 left to write
C24_Witness ==
    \E c \in Ctx :
        /\ pc[c] = "link"
        /\ frame[c].wrote = <<"ver", "len", "bytes", "cont">>
        /\ read_u32(buf, frame[c].key, 2) # frame[c].nxt
        /\ frame[c].nxt > 0

\* both contexts hold the cache entry of a completed insert that returned k
SameKey(k) ==
    /\ k >= 1
    /\ IsSome(cache["A"][k])
    /\ IsSome(cache["B"][k])
    /\ pc["A"] = "idle"
    /\ pc["B"] = "idle"

\* the value the cache of c holds for k, its version and its encoding
HeldVer(c, k) == Unwrap(cache[c][k]).ver
HeldVal(c, k) == Unwrap(cache[c][k]).val
HeldBytes(c, k) == to_vec(HeldVal(c, k))

\* the first n bytes of the payload area of head chunk k
HeadBytes(k, n) == read_bytes_into(buf, k, 12, n)

GetChunkBound(L) == 1 + (L + ContCap - 1) \div ContCap

InGet(c) == pc[c] \in {"get_bytes", "get_next"}

\* c is between two accesses of the loop of get: bytes are still missing,
\* the bytes read so far are those of the full chunks read so far, and the
\* read that follows stays within the bound
GetInLoop(c) ==
    LET f == frame[c]
    IN  /\ f.len > 0
        /\ Len(f.vec) + f.len = f.len0
        /\ Len(f.vec) = (IF f.nread = 0 THEN 0 ELSE HeadCap + (f.nread - 1) * ContCap)
        /\ f.nread + 1 =< GetChunkBound(f.len0)

\* a step of c in the loop of get: a read that leaves bytes missing leaves
\* fewer of them missing, a read that ends the loop has the last missing
\* bytes inside the chunk, and the next-pointer read leads into the buffer
GetStep(c) ==
    /\ (pc[c] = "get_bytes" /\ pc'[c] = "get_next") => frame'[c].len < frame[c].len
    /\ (pc[c] = "get_bytes" /\ pc'[c] = "idle")
           => /\ last'.op = "get" /\ last'.ctx = c /\ last'.fault # "RangeError"
              /\ frame[c].len =< chunk_size - frame[c].offset_data
    /\ (pc[c] = "get_next" /\ frame'[c] # frame[c])
           => pc'[c] = "get_bytes" /\ InBuffer(frame'[c].cur)

\* C27: over a buffer whose next-pointers stay inside it (0, 1, cycles,
\* chunks another context is writing), get(k) with L the length word read
\* at the start reads at most 1 + ceil(L / (C-4)) chunks: every read but the
\* last takes a full chunk and leaves fewer bytes missing, and the loop ends
\* with the read that brings the L-th byte.
C27_GetIsBounded ==
    /\ [](\A c \in Ctx : InGet(c) => GetInLoop(c))
    /\ [][\A c \in Ctx : InGet(c) => GetStep(c)]_vars

\* a get that is back at its head chunk after two chunks, while the other
\* context is inside insert_at and has written
C27_Witness ==
    \E c \in Ctx, d \in Ctx :
        /\ c # d
        /\ pc[c] = "get_bytes" /\ frame[c].nread >= 2 /\ frame[c].cur = frame[c].key
        /\ InInsertAt(d) /\ frame[d].wrote # <<>>

\* the context that is not c
Other(c) == CHOOSE d \in Ctx : d # c

\* C31 (Spec): an insert that returns never returns a key for which the
\* slab's cache holds an entry that the slab inserted and did not remove.
\* While the other slab has inserted nothing, every entry of the cache is
\* such an entry (no key but the slab's own has ever been written), so the
\* key an insert returns had no cache entry before the call.
C31_InsertKeepsOwnEntries ==
    [][(/\ IsCall
        /\ last'.op = "insert"
        /\ last'.ok
        /\ ninserts[Other(last'.ctx)] = 0)
       => last'.had = None]_vars

\* C32 (SpecHold): with the head keys taken from alloc (and the root key 0)
\* and every call run to completion, no chunk is in the chains of two live
\* keys; a head is the first chunk of its chain, so no chunk of a live
\* chain is the head of another live key either.
C32_LiveChainsDisjoint ==
    \A j \in Chunks, k \in Chunks :
        (j # k /\ Live(j) /\ Live(k))
        => Range(ChainOf(buf, j)) \cap Range(ChainOf(buf, k)) = {}

\* q is strictly increasing
Increasing(q) == \A i \in 1 .. Len(q) : \A j \in 1 .. Len(q) : i < j => q[i] < q[j]

\* the continuation chunks of the chain of key in b1 that were free (word 0
\* zero) in b: the chunks the write of the chain allocated, in the order of
\* the chain
Allocated(b, b1, key) ==
    SelectSeq(ChainOf(b1, key), LAMBDA j : j # key /\ ver_peek(b, j) = 0)

\* the cursor of an attached context is at least 1, and the key the last
\* insert of an attached slab returned is at least 1 and below the cursor
CursorCovers ==
    /\ \A c \in Ctx : Attached(c) => next_free(c) >= 1
    /\ (last.op = "insert" /\ last.ok /\ Attached(last.ctx))
           => (last.key >= 1 /\ last.key < next_free(last.ctx))

\* a step leaves an attached context attached and its cursor where it was
\* or above
CursorStays(c) ==
    Attached(c) => (IsSome(ropes'[c]) /\ Unwrap(ropes'[c]).next_free >= next_free(c))

\* a completed insert or flush_mut of an attached context c: every chunk it
\* allocated (free before, written after; the key of a flush_mut is none of
\* them, alloc did not return it in this call) lies from the old cursor on
\* and below the new one, and the chunks allocated for the chain it wrote
\* increase along the chain, the key of an insert first
CursorAllocates(c) ==
    (/\ IsCall
     /\ last'.ctx = c
     /\ last'.op \in {"insert", "flush_mut"}
     /\ last'.ok
     /\ Attached(c))
    => /\ \A j \in Chunks :
              (j # last'.key /\ ver_peek(buf, j) = 0 /\ ver_peek(buf', j) # 0)
              => (next_free(c) =< j /\ j < Unwrap(ropes'[c]).next_free)
       /\ Increasing(Allocated(buf, buf', last'.key))
       /\ last'.op = "insert"
              => /\ ver_peek(buf, last'.key) = 0
                 /\ last'.key >= next_free(c)
                 /\ Increasing(<<last'.key>> \o Allocated(buf, buf', last'.key))

====
